---- MODULE Spec2Model ----
(***************************************************************************)
(* The Bidi_Class block-table compiler (build.rs: compile_table,           *)
(* write_table, lookup) and the two-level accessor generated from it       *)
(* (src/char_data/mod.rs: bidi_class, is_rtl).                             *)
(*                                                                         *)
(* The build script is one sequential program: main evaluates              *)
(* compile_table() and hands the result to write_table.  The for loop of   *)
(* compile_table is modelled one iteration per step so that the state of   *)
(* the block table between two iterations is a state of the model.  After  *)
(* the artifact is written, the accessor is called on it.                  *)
(*                                                                         *)
(* Indices are 0-based as in the source; a TLA+ sequence s holds the       *)
(* element of index i at s[i + 1].                                         *)
(***************************************************************************)
EXTENDS Integers, Sequences, FiniteSets, TLC

(* ------------------------------ bounds -------------------------------- *)

\* block::SIZE is 2^8 in the source; the model compiles with 2^SizeLog2.
SizeLog2 == 2

\* Range tables drawn in Init have their codepoints in 0..MaxCodepoint
MaxCodepoint == 10

\* ... and at most MaxRanges ranges.
MaxRanges == 2

\* Malformed range tables have their codepoints in 0..MaxMalformed.
MaxMalformed == 4

\* The accessor is called on the codepoints 0..LAST_CODEPOINT + Beyond.
Beyond == 3

(* --------------------------- tables.rs data --------------------------- *)

\* enum BidiClass (tables.rs), the Bidi_Class values of UAX #9.
BidiClass ==
    {"AL", "AN", "B", "BN", "CS", "EN", "ES", "ET", "FSI", "L", "LRE", "LRI",
     "LRO", "NSM", "ON", "PDF", "PDI", "R", "RLE", "RLI", "RLO", "S", "WS"}

\* The classes the ranges of a drawn table carry.  "L" is also the default of
\* a gap, "RLE" is one of the classes is_rtl singles out.
TableClasses == {"L", "R", "RLE"}

\* The classes the ranges of a malformed table carry.
MalformedClasses == {"R", "RLE"}

\* The entries of BIDI_CLASS up to U+05FF that the tests of mod.rs pin down
\* (test_ascii, test_bmp: Hebrew), as (start, end, class) triples.
UcdSample ==
    << <<0, 0, "BN">>, <<64, 64, "ON">>, <<127, 127, "BN">>,
       <<1424, 1424, "R">>, <<1488, 1489, "R">>, <<1535, 1535, "R">> >>

HebrewAlef == 1488

(* ----------------------------- block ---------------------------------- *)

RECURSIVE Pow2(_)
Pow2(n) == IF n = 0 THEN 1 ELSE 2 * Pow2(n - 1)

\* usize::count_ones
RECURSIVE count_ones(_)
count_ones(n) == IF n = 0 THEN 0 ELSE (n % 2) + count_ones(n \div 2)

SIZE == Pow2(SizeLog2)

LAST_INDEX == SIZE - 1

\* build.rs: const SHIFT: u32 = block::LAST_INDEX.count_ones()
SHIFT == count_ones(LAST_INDEX)

\* x >> s and x << s; every codepoint of the model is far below 2^32 - SIZE,
\* where the u32 arithmetic of compile_table is exact
Shr(x, s) == x \div Pow2(s)

Shl(x, s) == x * Pow2(s)

\* x & LAST_INDEX, LAST_INDEX being 2^k - 1
LowBits(x) == x % (LAST_INDEX + 1)

\* x & !LAST_INDEX
HighBits(x) == x - LowBits(x)

\* u32::saturating_sub
saturating_sub(x, y) == IF x >= y THEN x - y ELSE 0

\* Block::new: vec![BidiClass::L; SIZE]
BlockNew == [i \in 1..SIZE |-> "L"]

\* Block::reset
BlockReset(b) == [i \in 1..Len(b) |-> "L"]

\* IndexMut for Block: block[index] = value
BlockSet(b, index, value) == [b EXCEPT ![index + 1] = value]

(* ----------------------------- lookup --------------------------------- *)

NotFound == -1

\* slice::binary_search_by with the comparator of lookup: Greater when the
\* codepoint is below the range, Less when above, Equal when inside.
RECURSIVE binary_search(_, _, _, _)
binary_search(t, c, left, right) ==
    IF left >= right THEN NotFound
    ELSE LET mid == left + ((right - left) \div 2)
             r == t[mid + 1]
         IN  IF c < r[1] THEN binary_search(t, c, left, mid)
             ELSE IF c > r[2] THEN binary_search(t, c, mid + 1, right)
             ELSE mid

\* fn lookup: the class of the range found, BidiClass::L otherwise
lookup(t, c) ==
    LET idx == binary_search(t, c, 0, Len(t))
    IN  IF idx = NotFound THEN "L" ELSE t[idx + 1][3]

(* --------------------------- range tables ----------------------------- *)

Min(S) == CHOOSE x \in S : \A y \in S : x <= y

Max(S) == CHOOSE x \in S : \A y \in S : x >= y

\* the start of the range min_by_key(start) returns
min_start(t) == Min({t[i][1] : i \in 1..Len(t)})

\* the end of the range max_by_key(end) returns
max_end(t) == Max({t[i][2] : i \in 1..Len(t)})

Sorted(t) == \A i \in 1..(Len(t) - 1) : t[i][1] <= t[i + 1][1]

NonOverlapping(t) ==
    \A i, j \in 1..Len(t) : i # j => (t[i][2] < t[j][1] \/ t[j][2] < t[i][1])

WellFormed(t) == Sorted(t) /\ NonOverlapping(t)

Malformed(t) == ~WellFormed(t)

\* the table of n ranges with starts s, ends e and classes k
TableOf(n, s, e, k) == [i \in 1..n |-> <<s[i], e[i], k[i]>>]

(* ------------------------------ state --------------------------------- *)

VARIABLES
    BIDI_CLASS,              \* tables.rs: the range table compiled
    pc,                      \* position of the program
    start,                   \* compile_table: first codepoint of the scan
    end,                     \* compile_table: last codepoint of the scan
    codepoint,               \* compile_table: the loop variable
    block,                   \* compile_table: the working block
    blocks,                  \* compile_table: Vec<(u32, Block)>
    address_to_block_index,  \* compile_table: Vec<(u32, usize)>
    last_code_point,         \* compile_table: maximum range end
    output,                  \* the files of OUT_DIR: <<>>, then <<bidi_class.rs>>
    u,                       \* bidi_class: the codepoint asked for
    result,                  \* bidi_class: the value returned, or Panic
    rtl                      \* is_rtl: the value returned

vars == <<BIDI_CLASS, pc, start, end, codepoint, block, blocks,
          address_to_block_index, last_code_point, output, u, result, rtl>>

compileVars == <<start, end, codepoint, block, blocks,
                 address_to_block_index, last_code_point>>

queryVars == <<u, result, rtl>>

NoFile == <<>>

None == "None"

Panic == "Panic"

InitRest ==
    /\ pc = "main"
    /\ start = 0
    /\ end = 0
    /\ codepoint = 0
    /\ block = <<>>
    /\ blocks = <<>>
    /\ address_to_block_index = <<>>
    /\ last_code_point = 0
    /\ output = NoFile
    /\ u = 0
    /\ result = None
    /\ rtl = FALSE

\* BIDI_CLASS is any sorted, non-overlapping table of at most MaxRanges
\* ranges over 0..MaxCodepoint (the empty one included), or the sample of
\* the shipped data
InitTable ==
    \/ \E n \in 0..MaxRanges :
         \E s \in [1..n -> 0..MaxCodepoint] :
           \E e \in [1..n -> 0..MaxCodepoint] :
             /\ \A i \in 1..n : s[i] <= e[i]
             /\ \A i \in 1..(n - 1) : e[i] < s[i + 1]
             /\ \E k \in [1..n -> TableClasses] : BIDI_CLASS = TableOf(n, s, e, k)
    \/ BIDI_CLASS = UcdSample

\* BIDI_CLASS is empty, or any table of at most MaxRanges ranges over
\* 0..MaxMalformed that is unsorted or has an overlap
InitMalformedTable ==
    \/ BIDI_CLASS = <<>>
    \/ \E n \in 1..MaxRanges :
         \E s \in [1..n -> 0..MaxMalformed] :
           \E e \in [1..n -> 0..MaxMalformed] :
             /\ \A i \in 1..n : s[i] <= e[i]
             /\ \E k \in [1..n -> MalformedClasses] :
                   /\ Malformed(TableOf(n, s, e, k))
                   /\ BIDI_CLASS = TableOf(n, s, e, k)

Init == InitTable /\ InitRest

InitAny == InitMalformedTable /\ InitRest

(* -------------------------- compile_table ----------------------------- *)

\* Faulty variant of CompileEmpty: the missing minimum is defaulted instead of
\* unwrapped, and an empty CompiledTable is returned.
CompileEmpty_defaulted ==
    /\ pc = "main"
    /\ BIDI_CLASS = <<>>
    /\ pc' = "compiled"
    /\ UNCHANGED <<BIDI_CLASS, compileVars, output, queryVars>>

\* min_by_key(..).unwrap() on an empty BIDI_CLASS: compile_table panics,
\* main never reaches write_table.
CompileEmpty ==
    /\ pc = "main"
    /\ BIDI_CLASS = <<>>
    /\ pc' = "panicked"
    /\ UNCHANGED <<BIDI_CLASS, compileVars, output, queryVars>>

\* Variant of CompileBegin that validates its input: a table that is unsorted
\* or has an overlap is rejected like the empty one.
CompileBegin_validating ==
    /\ pc = "main"
    /\ BIDI_CLASS # <<>>
    /\ IF Malformed(BIDI_CLASS)
       THEN /\ pc' = "panicked"
            /\ UNCHANGED compileVars
       ELSE /\ start' = min_start(BIDI_CLASS)
            /\ last_code_point' = max_end(BIDI_CLASS)
            /\ end' = HighBits(max_end(BIDI_CLASS)) + SIZE
            /\ codepoint' = min_start(BIDI_CLASS)
            /\ blocks' = <<>>
            /\ address_to_block_index' = <<>>
            /\ block' = BlockNew
            /\ pc' = "loop"
    /\ UNCHANGED <<BIDI_CLASS, output, queryVars>>

\* compile_table up to the for loop
CompileBegin ==
    /\ pc = "main"
    /\ BIDI_CLASS # <<>>
    /\ LET e == max_end(BIDI_CLASS)
           end_block_address == HighBits(e)
       IN  /\ start' = min_start(BIDI_CLASS)
           /\ last_code_point' = e
           /\ end' = end_block_address + SIZE
           /\ codepoint' = min_start(BIDI_CLASS)
    /\ blocks' = <<>>
    /\ address_to_block_index' = <<>>
    /\ block' = BlockNew
    /\ pc' = "loop"
    /\ UNCHANGED <<BIDI_CLASS, output, queryVars>>

\* (codepoint >> SHIFT).saturating_sub(1) << SHIFT
block_address(cp) == Shl(saturating_sub(Shr(cp, SHIFT), 1), SHIFT)

\* Faulty variant of FirstOfBlock: the first codepoint of the scan is the
\* one excluded, instead of codepoint 0.
FirstOfBlock_not_first(cp) == cp # start /\ LowBits(cp) = 0

\* codepoint != 0 && (codepoint & LAST_INDEX) == 0
FirstOfBlock(cp) == cp # 0 /\ LowBits(cp) = 0

\* blocks.iter().position(|(_, candidate)| candidate == &block)
position(bs, b) ==
    LET hits == {i \in 1..Len(bs) : bs[i][2] = b}
    IN  IF hits = {} THEN NotFound ELSE Min(hits) - 1

\* the index recorded for the working block
block_index(bs, b) ==
    IF position(bs, b) # NotFound THEN position(bs, b) ELSE Len(bs)

\* Faulty variant of blocks_push: the block is pushed whether or not an equal
\* one is present.
blocks_push_always(bs, addr, b) == Append(bs, <<addr, b>>)

\* blocks after the working block is written out
blocks_push(bs, addr, b) ==
    IF position(bs, b) # NotFound THEN bs ELSE Append(bs, <<addr, b>>)

\* one iteration of the for loop; the loop ends after codepoint = end
LoopStep ==
    /\ pc = "loop"
    /\ LET bidi_class == lookup(BIDI_CLASS, codepoint)
           addr == block_address(codepoint)
           flushed == IF FirstOfBlock(codepoint) THEN BlockReset(block) ELSE block
       IN  /\ IF FirstOfBlock(codepoint)
              THEN /\ address_to_block_index' =
                        Append(address_to_block_index,
                               <<addr, block_index(blocks, block)>>)
                   /\ blocks' = blocks_push(blocks, addr, block)
              ELSE UNCHANGED <<blocks, address_to_block_index>>
           /\ block' = BlockSet(flushed, LowBits(codepoint), bidi_class)
    /\ IF codepoint = end
       THEN pc' = "compiled" /\ codepoint' = codepoint
       ELSE pc' = "loop" /\ codepoint' = codepoint + 1
    /\ UNCHANGED <<BIDI_CLASS, start, end, last_code_point, output, queryVars>>

(* ---------------------------- write_table ----------------------------- *)

\* the blocks flattened in order: the initializer of BIDI_CLASS_BLOCKS
RECURSIVE Flatten(_)
Flatten(bs) == IF bs = <<>> THEN <<>> ELSE Head(bs)[2] \o Flatten(Tail(bs))

\* Faulty variant of BlockOffsetConsts: the offset counts blocks from 1.
BlockOffsetConsts_from_one(bs) == {<<bs[i][1], i * SIZE>> : i \in 1..Len(bs)}

\* const BLOCK_OFFSET_{address}: u16 = index * block::SIZE, one per block,
\* as (address, value) pairs.  The values of the model are far below 2^16;
\* a larger one would not compile as a u16 literal.
BlockOffsetConsts(bs) == {<<bs[i][1], (i - 1) * SIZE>> : i \in 1..Len(bs)}

\* the value the name BLOCK_OFFSET_{address} denotes in the generated file
BlockOffsetValue(consts, address) ==
    (CHOOSE k \in consts : k[1] = address)[2]

\* the initializer of BIDI_CLASS_BLOCK_OFFSETS: for each recorded index the
\* constant named after the address of blocks[index]
BlockOffsets(bs, a2b) ==
    [i \in 1..Len(a2b) |->
        BlockOffsetValue(BlockOffsetConsts(bs), bs[a2b[i][2] + 1][1])]

\* the generated file
Generated(ct_blocks, ct_a2b, ct_last) ==
    [LAST_CODEPOINT |-> ct_last,
     BLOCK_SIZE |-> SIZE,
     BIDI_CLASS_BLOCKS |-> Flatten(ct_blocks),
     BIDI_CLASS_BLOCK_OFFSETS |-> BlockOffsets(ct_blocks, ct_a2b)]

\* main: write_table(&output_path, &compile_table()) once compile_table
\* has returned
WriteTable ==
    /\ pc = "compiled"
    /\ output' = <<Generated(blocks, address_to_block_index, last_code_point)>>
    /\ pc' = "written"
    /\ UNCHANGED <<BIDI_CLASS, compileVars, queryVars>>

(* ------------------------- char_data/mod.rs --------------------------- *)

\* const MASK: usize = BLOCK_SIZE - 1
MASK(f) == f.BLOCK_SIZE - 1

\* const SHIFT: usize = MASK.count_ones()
ACC_SHIFT(f) == count_ones(MASK(f))

\* u as usize >> SHIFT
RegionIndex(f, c) == Shr(c, ACC_SHIFT(f))

\* Faulty variant of ReadsTables: the comparison is off by one.
ReadsTables_off_by_one(f, c) == c <= f.LAST_CODEPOINT + 1

\* the u <= LAST_CODEPOINT branch of bidi_class: the only one reading tables
ReadsTables(f, c) == c <= f.LAST_CODEPOINT

\* 0-based index valid for the sequence s
InBounds(s, i) == i >= 0 /\ i < Len(s)

\* BIDI_CLASS_BLOCK_OFFSETS[u >> SHIFT] + (u & MASK)
BlocksIndex(f, c) ==
    f.BIDI_CLASS_BLOCK_OFFSETS[RegionIndex(f, c) + 1] + (c % (MASK(f) + 1))

\* pub fn bidi_class over the generated file f; an index out of bounds panics
bidi_class(f, c) ==
    IF ReadsTables(f, c)
    THEN IF ~InBounds(f.BIDI_CLASS_BLOCK_OFFSETS, RegionIndex(f, c))
         THEN Panic
         ELSE IF ~InBounds(f.BIDI_CLASS_BLOCKS, BlocksIndex(f, c))
              THEN Panic
              ELSE f.BIDI_CLASS_BLOCKS[BlocksIndex(f, c) + 1]
    ELSE "L"

\* Variant of is_rtl that also takes the strong right-to-left classes.
is_rtl_with_strong(bc) ==
    IF bc \in {"RLE", "RLO", "RLI", "R", "AL"} THEN TRUE ELSE FALSE

\* pub fn is_rtl
is_rtl(bc) == IF bc \in {"RLE", "RLO", "RLI"} THEN TRUE ELSE FALSE

\* a call of bidi_class on the generated tables
Classify ==
    /\ pc = "written"
    /\ \E c \in 0..(output[1].LAST_CODEPOINT + Beyond) :
          /\ u' = c
          /\ result' = bidi_class(output[1], c)
    /\ pc' = "classified"
    /\ UNCHANGED <<BIDI_CLASS, compileVars, output, rtl>>

\* a call of is_rtl on the class bidi_class returned
IsRtl ==
    /\ pc = "classified"
    /\ result \in BidiClass
    /\ rtl' = is_rtl(result)
    /\ pc' = "done"
    /\ UNCHANGED <<BIDI_CLASS, compileVars, output, u, result>>

Next ==
    \/ CompileEmpty
    \/ CompileBegin
    \/ LoopStep
    \/ WriteTable
    \/ Classify
    \/ IsRtl

Spec == Init /\ [][Next]_vars

SpecAny == InitAny /\ [][Next]_vars

(* ------------------------------ claims -------------------------------- *)

\* compile_table has returned
Compiled == pc \in {"compiled", "written", "classified", "done"}

\* write_table has run
Written == pc \in {"written", "classified", "done"}

\* the ceiling of a / b
CeilDiv(a, b) == (a + b - 1) \div b

\* the largest range end of BIDI_CLASS
LastCodepoint == Max({BIDI_CLASS[i][2] : i \in 1..Len(BIDI_CLASS)})

\* the smallest range start of BIDI_CLASS
FirstCodepoint == Min({BIDI_CLASS[i][1] : i \in 1..Len(BIDI_CLASS)})

\* the class of the range of t that holds c, L in a gap (t well-formed)
ClassOf(t, c) ==
    IF \E i \in 1..Len(t) : t[i][1] <= c /\ c <= t[i][2]
    THEN t[CHOOSE i \in 1..Len(t) : t[i][1] <= c /\ c <= t[i][2]][3]
    ELSE "L"

\* C1: for every non-empty, sorted, non-overlapping range table, whatever its
\* smallest start, and every codepoint c in 0..=last_codepoint, the accessor
\* on the compiled table returns what lookup(c) returns.
C1_RoundTrip ==
    (Written /\ BIDI_CLASS # <<>> /\ WellFormed(BIDI_CLASS)) =>
        \A c \in 0..LastCodepoint :
            bidi_class(output[1], c) = lookup(BIDI_CLASS, c)

\* C2: for every codepoint c <= last_codepoint the region index c >> SHIFT is
\* a valid index of the offset array and offset + (c & MASK) a valid index of
\* the block array; for c > last_codepoint no table is read.
C2_AccessorTotal ==
    Written =>
        LET f == output[1]
        IN  \A c \in 0..(f.LAST_CODEPOINT + Beyond) :
              IF c <= f.LAST_CODEPOINT
              THEN /\ InBounds(f.BIDI_CLASS_BLOCK_OFFSETS, c \div SIZE)
                   /\ InBounds(f.BIDI_CLASS_BLOCKS,
                               f.BIDI_CLASS_BLOCK_OFFSETS[(c \div SIZE) + 1] + (c % SIZE))
                   /\ bidi_class(f, c) # Panic
              ELSE ~ReadsTables(f, c)

\* the classes is_rtl answers TRUE for
RtlTags == {"RLE", "RLO", "RLI"}

\* C3 (as stated): U+05D0 classifies as R and is_rtl is true for that class.
C3_AlefIsRtl ==
    (pc = "done" /\ BIDI_CLASS = UcdSample /\ u = HebrewAlef) =>
        (result = "R" /\ rtl = TRUE)

\* C3 (amended): U+05D0 classifies as R and is_rtl is FALSE for that class:
\* is_rtl is TRUE exactly for RLE, RLO and RLI (the right-to-left embedding,
\* override and isolate initiators) and FALSE for every other class, the
\* strong right-to-left classes R and AL included.
C3_IsRtlMembership ==
    /\ \A bc \in BidiClass : is_rtl(bc) = (bc \in RtlTags)
    /\ pc = "done" => rtl = (result \in RtlTags)
    /\ (pc = "done" /\ BIDI_CLASS = UcdSample /\ u = HebrewAlef) =>
          (result = "R" /\ rtl = FALSE)

C3_Witness ==
    /\ pc = "done"
    /\ BIDI_CLASS = UcdSample
    /\ u = HebrewAlef
    /\ result = "R"
    /\ rtl = FALSE

\* C4: for every codepoint c greater than last_codepoint, the maximum range
\* end of the input, the accessor returns the default L, which is also what
\* lookup returns for c.
C4_DefaultBeyondRange ==
    (pc \in {"classified", "done"} /\ u > LastCodepoint) =>
        (result = "L" /\ lookup(BIDI_CLASS, u) = "L")

C4_Witness ==
    /\ pc = "classified"
    /\ u = LastCodepoint + 1
    /\ u % SIZE = 0
    /\ result = "L"
    /\ lookup(BIDI_CLASS, LastCodepoint) # "L"

\* C5: with an empty range table compilation fails instead of returning a
\* table, and it fails before write_table runs: no output file is created.
C5_EmptyTableFails ==
    BIDI_CLASS = <<>> => (pc \in {"main", "panicked"} /\ output = NoFile)

C5_Witness == BIDI_CLASS = <<>> /\ pc = "panicked" /\ output = NoFile

\* C6 (as stated): compile_table never returns a CompiledTable for a range
\* table that is unsorted or has overlapping ranges.
C6_MalformedRejected == Malformed(BIDI_CLASS) => ~Compiled

\* C6 (amended): compile_table does not look at the order or the overlap of
\* the ranges: the empty table is the only one it rejects, and the scan of a
\* malformed table runs to its end like any other.
C6_OnlyEmptyRejected ==
    /\ pc = "panicked" => BIDI_CLASS = <<>>
    /\ (Malformed(BIDI_CLASS) /\ pc # "main") =>
          /\ start = FirstCodepoint
          /\ last_code_point = LastCodepoint
          /\ start <= codepoint /\ codepoint <= end
          /\ (Compiled <=> (pc # "loop"))
    /\ (Malformed(BIDI_CLASS) /\ Compiled) => codepoint = end

C6_Witness ==
    /\ Malformed(BIDI_CLASS)
    /\ ~Sorted(BIDI_CLASS)
    /\ ~NonOverlapping(BIDI_CLASS)
    /\ Written

\* C7: for every non-empty valid range table the offset table has exactly
\* ceil((last_codepoint + 1) / BLOCK_SIZE) entries, and entry i describes the
\* region starting at i * BLOCK_SIZE.
C7_OffsetTableLength ==
    (Compiled /\ BIDI_CLASS # <<>> /\ WellFormed(BIDI_CLASS)) =>
        /\ Len(address_to_block_index) = CeilDiv(LastCodepoint + 1, SIZE)
        /\ \A i \in 1..Len(address_to_block_index) :
              address_to_block_index[i][1] = (i - 1) * SIZE
        /\ Written =>
              Len(output[1].BIDI_CLASS_BLOCK_OFFSETS) =
                  CeilDiv(LastCodepoint + 1, SIZE)

\* no two entries of the block table are element-wise equal
NoEqualBlocks ==
    \A i, j \in 1..Len(blocks) : blocks[i][2] = blocks[j][2] => i = j

\* a step finalizes a block: a region is recorded
Finalizes == Len(address_to_block_index') = Len(address_to_block_index) + 1

\* a step appends the working block only when no equal block is present;
\* otherwise the region recorded refers to the equal entry and the block
\* table is left as it is
AppendsOnlyNew ==
    /\ Finalizes \/ UNCHANGED <<blocks, address_to_block_index>>
    /\ Finalizes =>
          LET ref == address_to_block_index'[Len(address_to_block_index')][2]
          IN  IF \E i \in 1..Len(blocks) : blocks[i][2] = block
              THEN /\ blocks' = blocks
                   /\ blocks[ref + 1][2] = block
              ELSE /\ Len(blocks') = Len(blocks) + 1
                   /\ SubSeq(blocks', 1, Len(blocks)) = blocks
                   /\ blocks'[Len(blocks')][2] = block
                   /\ ref = Len(blocks)

\* C8: at every point of compilation and in the final CompiledTable no two
\* entries of the block table are equal: a finalized working block is
\* appended only when no equal block is present, otherwise the region refers
\* to the existing entry and the block table does not grow.
C8_NoDuplicateBlocks == []NoEqualBlocks /\ [][AppendsOnlyNew]_vars

\* a region has been recorded against an existing block, with two blocks in
\* the table
C8_Witness ==
    /\ pc = "compiled"
    /\ BIDI_CLASS # UcdSample
    /\ Len(blocks) >= 2
    /\ Len(address_to_block_index) > Len(blocks)
    /\ address_to_block_index[Len(address_to_block_index)][2] < Len(blocks) - 1

\* the largest of the first n offsets of s; -SIZE, the offset of block id -1,
\* when n = 0
MaxBefore(s, n) == IF n = 0 THEN -SIZE ELSE Max({s[j] : j \in 1..n})

\* C9: block ids are dense and assigned in first-seen order and each offset
\* entry is block_id * BLOCK_SIZE of the block representing its region: the
\* first entry is 0, every entry is a multiple of BLOCK_SIZE below
\* len(block_array), and each entry is at most BLOCK_SIZE greater than the
\* largest entry before it.
C9_DenseFirstSeenOffsets ==
    pc = "written" =>
        LET f == output[1]
            offs == f.BIDI_CLASS_BLOCK_OFFSETS
            arr == f.BIDI_CLASS_BLOCKS
        IN  /\ Len(offs) = Len(address_to_block_index)
            /\ Len(arr) = Len(blocks) * SIZE
            /\ offs[1] = 0
            /\ \A i \in 1..Len(offs) :
                  /\ offs[i] % SIZE = 0
                  /\ offs[i] >= 0 /\ offs[i] < Len(arr)
                  /\ offs[i] <= MaxBefore(offs, i - 1) + SIZE
                  \* block_id * BLOCK_SIZE of the block recorded for the region
                  /\ offs[i] = address_to_block_index[i][2] * SIZE
                  \* which holds the classes of the region it is recorded for
                  /\ \A k \in 0..(SIZE - 1) :
                        arr[offs[i] + k + 1] =
                            ClassOf(BIDI_CLASS, address_to_block_index[i][1] + k)
            \* every block id is used, in the order of first use
            /\ \A b \in 0..(Len(blocks) - 1) :
                  \E i \in 1..Len(offs) :
                      /\ offs[i] = b * SIZE
                      /\ MaxBefore(offs, i - 1) = (b - 1) * SIZE

\* several blocks, one of them other than the first shared by two regions
C9_Witness ==
    /\ pc = "written"
    /\ Len(blocks) >= 2
    /\ \E i, j \in 1..Len(output[1].BIDI_CLASS_BLOCK_OFFSETS) :
          /\ i < j
          /\ output[1].BIDI_CLASS_BLOCK_OFFSETS[i] = output[1].BIDI_CLASS_BLOCK_OFFSETS[j]
          /\ output[1].BIDI_CLASS_BLOCK_OFFSETS[i] # 0

\* C10 (as stated): no block is finalized while the first codepoint of the
\* scan is processed, even when it is block-aligned and non-zero, so every
\* finalized block is one whose codepoints were all walked by the scan.
C10_FirstCodepointExcluded ==
    /\ (pc = "loop" /\ codepoint = start + 1) => address_to_block_index = <<>>
    /\ \A i \in 1..Len(address_to_block_index) :
          address_to_block_index[i][1] >= start

\* C10 (amended): an iteration of the scan finalizes a block exactly when the
\* low-order bits of its codepoint are zero and the codepoint is not 0.  The
\* one codepoint excluded is 0, not the first of the scan: a first codepoint
\* that is block-aligned and non-zero finalizes the untouched all-default
\* working block for the region before it.
C10_FinalizedOnBoundary ==
    [][pc = "loop" =>
          /\ Finalizes <=> (codepoint # 0 /\ codepoint % SIZE = 0)
          /\ Finalizes \/ UNCHANGED <<blocks, address_to_block_index>>
          /\ (Finalizes /\ codepoint = start) =>
                /\ block = BlockNew
                /\ address_to_block_index' = <<<<start - SIZE, 0>>>>
                /\ blocks' = <<<<start - SIZE, BlockNew>>>>]_vars

\* the first codepoint of the scan was block-aligned and non-zero, and its
\* iteration has finalized a block
C10_Witness ==
    /\ pc = "loop"
    /\ codepoint = start + 1
    /\ start # 0
    /\ start % SIZE = 0
    /\ Len(address_to_block_index) = 1

====
